---------------------------- MODULE Spec2Model ----------------------------
(***************************************************************************)
(* A model of the reV generation engine (reV/generation/generation.py):   *)
(* the Result Table of a Gen object and its setter, the worker call       *)
(* Gen.run, the execution of a run over the chunks of a PointsControl     *)
(* (run_direct, run_smart), Gen.flush and the naming of output files      *)
(* (handle_fout, get_unique_fout), the time index and the views of the    *)
(* table; and of the command line of the engine (reV/generation/          *)
(* cli_gen.py): the node fan-out of peregrine and eagle and the run of a  *)
(* config file, year by year.                                             *)
(*                                                                         *)
(* Python strings are sequences of one-character strings, so that         *)
(* endswith, replace, zfill and the regular expression of get_unique_fout *)
(* are computed on the characters.  Python dicts are functions.  None is  *)
(* a value that is no string and no dict.                                  *)
(***************************************************************************)
EXTENDS Integers, Sequences, FiniteSets, TLC

VARIABLES
    out,        \* Gen._out: the Result Table, site -> record
    fout,       \* Gen._fout: requested output file name, or None
    dirout,     \* Gen._dirout: requested output directory, or None
    disk,       \* the files on disk: path -> table written to it
    dirs,       \* the directories on disk
    ret,        \* the path the last handle_fout call returned, or None
    warned,     \* whether the last handle_fout call issued its warning
    log,        \* the paths Gen.flush wrote to, in the order of the writes
    pc,         \* where the run is
    run         \* the rest of the run's state (a record, per specification)

vars == <<out, fout, dirout, disk, dirs, ret, warned, log, pc, run>>

-----------------------------------------------------------------------------
(* Python values *)

\* Python's None: a one-element sequence whose element is no character.
None == <<"<None>">>

\* an update that keeps the old value of a key of both dicts
DictUpdateKeep(d, e) ==
    [k \in (DOMAIN d) \cup (DOMAIN e) |-> IF k \in DOMAIN d THEN d[k] ELSE e[k]]

\* d.update(e) for dicts d, e: the keys of e are set, last write wins.
DictUpdate(d, e) ==
    [k \in (DOMAIN d) \cup (DOMAIN e) |-> IF k \in DOMAIN e THEN e[k] ELSE d[k]]

\* {} : the empty dict.
EmptyDict == <<>>

-----------------------------------------------------------------------------
(* Python strings *)

Digits == <<"0", "1", "2", "3", "4", "5", "6", "7", "8", "9">>

IsDigit(c) == \E i \in 1..10 : Digits[i] = c

\* the value of a digit character
DigitVal(c) == (CHOOSE i \in 1..10 : Digits[i] = c) - 1

\* s.startswith(p) at position i (1-based): p occurs in s at i
OccursAt(s, p, i) ==
    /\ i >= 1
    /\ i + Len(p) - 1 <= Len(s)
    /\ \A j \in 1..Len(p) : s[i + j - 1] = p[j]

\* s.endswith(suf)
EndsWith(s, suf) ==
    /\ Len(suf) <= Len(s)
    /\ OccursAt(s, suf, Len(s) - Len(suf) + 1)

\* s.startswith(p)
StartsWith(s, p) == OccursAt(s, p, 1)

\* s.replace(old, new), old not empty: every occurrence, found from the left,
\* occurrences do not overlap.
RECURSIVE ReplaceFrom(_, _, _, _)
ReplaceFrom(s, old, new, i) ==
    IF i > Len(s) THEN <<>>
    ELSE IF OccursAt(s, old, i)
         THEN new \o ReplaceFrom(s, old, new, i + Len(old))
         ELSE <<s[i]>> \o ReplaceFrom(s, old, new, i + 1)

Replace(s, old, new) == ReplaceFrom(s, old, new, 1)

\* int(d) for a string of digits
RECURSIVE StrToInt(_)
StrToInt(d) ==
    IF Len(d) = 0 THEN 0
    ELSE 10 * StrToInt(SubSeq(d, 1, Len(d) - 1)) + DigitVal(d[Len(d)])

\* str(n) for n >= 0
RECURSIVE IntToStr(_)
IntToStr(n) ==
    IF n < 10 THEN <<Digits[n + 1]>>
    ELSE IntToStr(n \div 10) \o <<Digits[(n % 10) + 1]>>

\* s.zfill(w): zeros on the left up to width w, never a cut
RECURSIVE ZFill(_, _)
ZFill(s, w) == IF Len(s) >= w THEN s ELSE ZFill(<<"0">> \o s, w)


-----------------------------------------------------------------------------
(* os.path *)

\* os.path.exists(p): p names a file or a directory
PathExists(p, files, ds) == p \in files \/ p \in ds

\* os.path.join(a, b) on POSIX
PathJoin(a, b) ==
    IF StartsWith(b, <<"/">>) THEN b
    ELSE IF Len(a) = 0 \/ EndsWith(a, <<"/">>) THEN a \o b
    ELSE a \o <<"/">> \o b

-----------------------------------------------------------------------------
(* Gen.get_unique_fout, Gen.handle_fout *)

H5 == <<".", "h", "5">>
X000H5 == <<"_", "x", "0", "0", "0", ".", "h", "5">>
TagPrefix == <<"_", "x">>

\* the text _x followed by three digits stands in s at i
TagAt(s, i) ==
    /\ OccursAt(s, TagPrefix, i)
    /\ i + 4 <= Len(s)
    /\ \A j \in (i + 2)..(i + 4) : IsDigit(s[j])

\* re.match(r'.*_x([0-9]{3})', s): the match starts at the start of s; ".*"
\* is greedy and "." matches every character but the newline, so the tag
\* matched is the last one that no newline precedes.  The result is group(1),
\* or None when nothing matches.
ReMatchTag(s) ==
    LET pos == {i \in 1..Len(s) :
                    TagAt(s, i) /\ \A j \in 1..(i - 1) : s[j] # "\n"}
    IN  IF pos = {} THEN None
        ELSE LET i == CHOOSE k \in pos : \A m \in pos : m <= k
             IN  SubSeq(s, i + 2, i + 4)

\* Gen.get_unique_fout(fout) with the paths that exist
RECURSIVE get_unique_fout(_, _, _)
get_unique_fout(f, files, ds) ==
    IF PathExists(f, files, ds)
    THEN LET g == ReMatchTag(f)
         IN  IF g # None
             THEN LET new_tag == TagPrefix \o ZFill(IntToStr(StrToInt(g) + 1), 3)
                  IN  get_unique_fout(Replace(f, TagPrefix \o g, new_tag),
                                      files, ds)
             ELSE f
    ELSE f

\* handle_fout without lines 235-238: the extension is left as requested
handle_fout_noext(f, d, files, ds) ==
    LET f2 == IF d # None /\ Len(d) > 0 THEN PathJoin(d, f) ELSE f
        ds1 == IF d # None /\ Len(d) > 0 /\ ~PathExists(d, files, ds)
               THEN ds \cup {d} ELSE ds
    IN  [fout   |-> get_unique_fout(Replace(f2, H5, X000H5), files, ds1),
         warned |-> FALSE,
         ds     |-> ds1]

\* Gen.handle_fout(fout, dirout): the path returned (fout), whether the
\* warning was issued (warned) and the directories on disk afterwards (ds).
handle_fout(f, d, files, ds) ==
    LET ext == EndsWith(f, H5)
        f1 == IF ~ext THEN f \o H5 ELSE f
        \* "if dirout:" is false for None and for the empty string
        use == d # None /\ Len(d) > 0
        ds1 == IF use /\ ~PathExists(d, files, ds) THEN ds \cup {d} ELSE ds
        f2 == IF use THEN PathJoin(d, f1) ELSE f1
        f3 == Replace(f2, H5, X000H5)
    IN  [fout   |-> get_unique_fout(f3, files, ds1),
         warned |-> ~ext,
         ds     |-> ds1]

-----------------------------------------------------------------------------
(* The Result Table: Gen.out, its setter, Gen.unpack_futures *)

\* unpack_futures that keeps the first result only
unpack_futures_first(futures) ==
    IF Len(futures) = 0 THEN EmptyDict ELSE futures[1]

\* Gen.unpack_futures(futures): out = {}; out.update(x) for x in futures
RECURSIVE unpack_futures(_)
unpack_futures(futures) ==
    IF Len(futures) = 0 THEN EmptyDict
    ELSE DictUpdate(unpack_futures(SubSeq(futures, 1, Len(futures) - 1)),
                    futures[Len(futures)])

\* a setter that assigns the value instead of updating _out with it
out_setter_replace(o, result) ==
    IF result.type = "list" THEN [out |-> unpack_futures(result.v), err |-> FALSE]
    ELSE IF result.type = "dict" THEN [out |-> result.v, err |-> FALSE]
    ELSE IF result.type = "None" THEN [out |-> EmptyDict, err |-> FALSE]
    ELSE [out |-> o, err |-> TRUE]

\* a setter whose None branch does not clear _out
out_setter_noclear(o, result) ==
    IF result.type = "list"
    THEN [out |-> DictUpdate(o, unpack_futures(result.v)), err |-> FALSE]
    ELSE IF result.type = "dict"
    THEN [out |-> DictUpdate(o, result.v), err |-> FALSE]
    ELSE IF result.type = "None"
    THEN [out |-> o, err |-> FALSE]
    ELSE [out |-> o, err |-> TRUE]

\* a setter that clears _out before it raises TypeError
out_setter_clear_on_error(o, result) ==
    IF result.type = "list"
    THEN [out |-> DictUpdate(o, unpack_futures(result.v)), err |-> FALSE]
    ELSE IF result.type = "dict"
    THEN [out |-> DictUpdate(o, result.v), err |-> FALSE]
    ELSE IF result.type = "None"
    THEN [out |-> EmptyDict, err |-> FALSE]
    ELSE [out |-> EmptyDict, err |-> TRUE]

\* The setter of Gen.out.  The value assigned is tagged with its Python type:
\* [type |-> "list", v |-> a sequence of dicts], [type |-> "dict", v |-> a
\* dict], [type |-> "None"], or another type.  The result is the new _out and
\* whether TypeError is raised.
out_setter(o, result) ==
    IF result.type = "list"
    THEN [out |-> DictUpdate(o, unpack_futures(result.v)), err |-> FALSE]
    ELSE IF result.type = "dict"
    THEN [out |-> DictUpdate(o, result.v), err |-> FALSE]
    ELSE IF result.type = "None"
    THEN [out |-> EmptyDict, err |-> FALSE]
    ELSE [out |-> o, err |-> TRUE]

PyList(v) == [type |-> "list", v |-> v]
PyDict(v) == [type |-> "dict", v |-> v]
PyNone == [type |-> "None"]

-----------------------------------------------------------------------------
(* Gen.flush *)

\* CapacityFactor.write_means / write_profiles with mode 'w': the file at path
\* holds the table afterwards, whatever it held before.
WriteFile(d, path, table) ==
    [p \in (DOMAIN d) \cup {path} |-> IF p = path THEN table ELSE d[p]]

\* a flush that never writes
FlushWritesNever(f, o) == FALSE

\* the condition of flush without "and self.out"
FlushWritesAlways(f, o) == f # None

\* "isinstance(fout, str) and self.out": the condition under which flush writes
FlushWrites(f, o) == f # None /\ o # EmptyDict

\* Gen.flush(): the whole method, on the disk, for a Gen object whose Result
\* Table is o
FlushOf(o) ==
    IF FlushWrites(fout, o)
    THEN \E h \in {handle_fout(fout, dirout, DOMAIN disk, dirs)} :
             /\ ret' = h.fout
             /\ warned' = h.warned
             /\ dirs' = h.ds
             /\ disk' = WriteFile(disk, h.fout, o)
             /\ log' = Append(log, h.fout)
    ELSE UNCHANGED <<ret, warned, dirs, disk, log>>

Flush == FlushOf(out)

-----------------------------------------------------------------------------
(* The Chunk Planner: ProjectPoints, PointsControl *)

\* The chunks a PointsControl over the sites yields when iterated: the sites
\* in their order, k at a time, the last chunk with what is left.
RECURSIVE PointsControl(_, _)
PointsControl(sites, k) ==
    IF Len(sites) = 0 THEN <<>>
    ELSE IF Len(sites) <= k THEN <<sites>>
    ELSE <<SubSeq(sites, 1, k)>> \o PointsControl(SubSeq(sites, k + 1, Len(sites)), k)

\* PointsControl.split(i0, i1, pp, sites_per_split): a PointsControl over the
\* sites whose linear index is in [i0, i1)
PointsControlSplit(i0, i1, sites, k) ==
    PointsControl(SubSeq(sites, i0 + 1, IF i1 <= Len(sites) THEN i1 ELSE Len(sites)), k)

\* the PointsControl of the run when points_range is not looked at
MakePCIgnoreRange(sites, points_range, k) == PointsControl(sites, k)

\* run_direct / run_smart, for points given as a slice or a file name: the
\* PointsControl of the run
MakePC(sites, points_range, k) ==
    IF points_range = None
    THEN PointsControl(sites, k)
    ELSE PointsControlSplit(points_range[1], points_range[2], sites, k)

-----------------------------------------------------------------------------
(* The worker call: Gen.run *)

\* the record the simulation gives for site s
SimRec(s) == s

\* The simulation of a chunk (Gen.funs[tech]): a Result Record with one
\* record for every site of the chunk.
Sim(chunk) == [s \in {chunk[i] : i \in 1..Len(chunk)} |-> SimRec(s)]

\* Gen.run without its try/except: the exception of the simulation leaves it
GenRunNoCatch(chunk, raises) ==
    IF raises THEN [out |-> EmptyDict, exc |-> TRUE]
    ELSE [out |-> Sim(chunk), exc |-> FALSE]

\* Gen.run(points_control, ...) for one chunk, whose simulation call raises or
\* not: the dict returned (out) and whether an exception leaves the call (exc)
GenRun(chunk, raises) ==
    IF raises THEN [out |-> EmptyDict, exc |-> FALSE]
    ELSE [out |-> Sim(chunk), exc |-> FALSE]

-----------------------------------------------------------------------------
(* Repeated flushes of one Gen object to one requested name: SpecFout *)

\* the number of tables merged, and of files written, in one behaviour
MaxWrites == 3

\* requested output names: x.h5, x (no extension), x.c (another extension),
\* a_x000.h5 (the name holds a tag), a<newline>b.h5
FoutNames ==
    { <<"x", ".", "h", "5">>,
      <<"x">>,
      <<"x", ".", "c">>,
      <<"a", "_", "x", "0", "0", "0", ".", "h", "5">>,
      <<"a", "\n", "b", ".", "h", "5">> }

\* requested output directories: none, o, d_x000
FoutDirs ==
    { None, <<"o">>, <<"d", "_", "x", "0", "0", "0">> }

\* files that may be on disk before the first flush
PreFiles ==
    { <<"x", "_", "x", "0", "0", "0", ".", "h", "5">>,
      <<"x", "_", "x", "0", "0", "1", ".", "h", "5">>,
      <<"o", "/", "x", "_", "x", "0", "0", "0", ".", "h", "5">> }

\* os.path.dirname(p), for p with a directory part
DirName(p) ==
    LET pos == {i \in 1..Len(p) : p[i] = "/"}
    IN  IF pos = {} THEN <<>>
        ELSE SubSeq(p, 1, (CHOOSE k \in pos : \A m \in pos : m <= k) - 1)

\* the table a file written before the run holds
OldTable == [s \in {0} |-> 0]

InitFout ==
    /\ out = EmptyDict
    /\ fout \in FoutNames
    /\ dirout \in FoutDirs
    /\ \E P \in SUBSET PreFiles :
          /\ disk = [p \in P |-> OldTable]
          /\ dirs = {DirName(p) : p \in {q \in P : DirName(q) # <<>>}}
    /\ ret = None
    /\ warned = FALSE
    /\ log = <<>>
    /\ pc = "fout"
    /\ run = [n |-> 0]

\* gen.out = {site: record}: a result arrives
FoutMerge ==
    /\ pc = "fout"
    /\ run.n < MaxWrites
    /\ out' = out_setter(out, PyDict([s \in {run.n + 1} |-> SimRec(run.n + 1)])).out
    /\ run' = [run EXCEPT !.n = @ + 1]
    /\ UNCHANGED <<fout, dirout, disk, dirs, ret, warned, log, pc>>

\* gen.flush()
FoutFlush ==
    /\ pc = "fout"
    /\ Len(log) < MaxWrites
    /\ Flush
    /\ UNCHANGED <<out, fout, dirout, pc, run>>

\* gen.out = None
FoutClear ==
    /\ pc = "fout"
    /\ out # EmptyDict
    /\ out' = out_setter(out, PyNone).out
    /\ UNCHANGED <<fout, dirout, disk, dirs, ret, warned, log, pc, run>>

NextFout == FoutMerge \/ FoutFlush \/ FoutClear

SpecFout == InitFout /\ [][NextFout]_vars

-----------------------------------------------------------------------------
(* Gen.run_direct: SpecDirect *)

\* the number of sites of a Site Set
MaxSites == 4
\* the largest sites_per_split
MaxSplit == 2
\* the largest n_workers
MaxWorkers == 2

\* Site Sets: the sites 0..n-1 in increasing order (a slice) and in
\* decreasing order (a points file need not be sorted)
SiteSets ==
    {[i \in 1..n |-> i - 1] : n \in 0..MaxSites}
        \cup {[i \in 1..n |-> n - i] : n \in 2..MaxSites}

\* points_range: None, or [i0, i1] with 0 <= i0 <= i1 <= the number of sites
PointsRanges(sites) ==
    {None} \cup {p \in (0..Len(sites)) \X (0..Len(sites)) : p[1] <= p[2]}

\* the inputs of a run and the state of its execution
InitRun(first) ==
    /\ out = EmptyDict
    /\ dirout = <<"o">>
    /\ disk = <<>>
    /\ dirs = {}
    /\ ret = None
    /\ warned = FALSE
    /\ log = <<>>
    /\ pc = first
    /\ \E sites \in SiteSets, k \in 1..MaxSplit, w \in 1..MaxWorkers :
          \E pr \in PointsRanges(sites) :
             run = [sites |-> sites, sites_per_split |-> k, points_range |-> pr,
                    n_workers |-> w, chunks |-> <<>>, next |-> 1,
                    running |-> {}, futures |-> <<>>, order |-> <<>>,
                    failed |-> {}]

InitDirect ==
    /\ InitRun("plan")
    /\ fout \in {None, <<"x", ".", "h", "5">>}

\* run_direct, lines 355-373: the PointsControl and the Gen object are made
DirectPlan ==
    /\ pc = "plan"
    /\ run' = [run EXCEPT !.chunks =
                  MakePC(run.sites, run.points_range, run.sites_per_split)]
    /\ pc' = "exec"
    /\ UNCHANGED <<out, fout, dirout, disk, dirs, ret, warned, log>>

\* the run's state after the call of Gen.run for chunk i has ended
AfterRun(i, raises) ==
    LET r == GenRun(run.chunks[i], raises)
    IN  IF r.exc
        THEN /\ pc' = "aborted"
             /\ run' = [run EXCEPT !.running = @ \ {i}]
        ELSE /\ pc' = pc
             /\ run' = [run EXCEPT !.running = @ \ {i},
                                   !.futures = Append(@, r.out),
                                   !.order = Append(@, i),
                                   !.failed = IF raises THEN @ \cup {i} ELSE @,
                                   !.next = IF run.n_workers = 1 THEN @ + 1 ELSE @]

\* execute_single: the chunks one after the other, in their order
ExecSingle ==
    /\ pc = "exec"
    /\ run.n_workers = 1
    /\ run.next <= Len(run.chunks)
    /\ \E raises \in BOOLEAN : AfterRun(run.next, raises)
    /\ UNCHANGED <<out, fout, dirout, disk, dirs, ret, warned, log>>

\* execute_parallel: the next chunk goes to a free worker of the pool
ExecSubmit ==
    /\ pc = "exec"
    /\ run.n_workers > 1
    /\ run.next <= Len(run.chunks)
    /\ Cardinality(run.running) < run.n_workers
    /\ run' = [run EXCEPT !.running = @ \cup {run.next}, !.next = @ + 1]
    /\ UNCHANGED <<out, fout, dirout, disk, dirs, ret, warned, log, pc>>

\* execute_parallel: a chunk's future completes, in any order
ExecComplete ==
    /\ pc = "exec"
    /\ run.n_workers > 1
    /\ \E i \in run.running : \E raises \in BOOLEAN : AfterRun(i, raises)
    /\ UNCHANGED <<out, fout, dirout, disk, dirs, ret, warned, log>>

\* run_direct, lines 384-388: gen.out = out; gen.flush()
DirectFinish ==
    /\ pc = "exec"
    /\ run.next > Len(run.chunks)
    /\ run.running = {}
    /\ \E r \in {out_setter(out, PyList(run.futures))} :
           /\ out' = r.out
           /\ FlushOf(r.out)
    /\ pc' = "done"
    /\ UNCHANGED <<fout, dirout, run>>

NextDirect == DirectPlan \/ ExecSingle \/ ExecSubmit \/ ExecComplete \/ DirectFinish

SpecDirect == InitDirect /\ [][NextDirect]_vars

-----------------------------------------------------------------------------
(* Gen.run_smart and the Smart Flush Controller: SpecSmart *)

\* mem_util_lim, in percent: the default of run_smart
MemUtilLim == 70

\* the values the memory utilization is sampled at, in percent
MemSamples == {50, 90}

\* the call of SmartParallelJob.execute with a limit of 0 instead of the
\* mem_util_lim of the run
SmartJobArgsNoLimit(n_workers, mem_util_lim) ==
    [n_workers |-> n_workers, mem_util_lim |-> 0]

\* run_smart, lines 469-471: what SmartParallelJob.execute is called with
SmartJobArgs(n_workers, mem_util_lim) ==
    [n_workers |-> n_workers, mem_util_lim |-> mem_util_lim]

InitSmart ==
    /\ out = EmptyDict
    /\ fout \in {None, <<"x", ".", "h", "5">>}
    /\ dirout \in {None, <<"o">>}
    /\ disk = <<>>
    /\ dirs = {}
    /\ ret = None
    /\ warned = FALSE
    /\ log = <<>>
    /\ pc = "plan"
    /\ \E sites \in SiteSets, k \in 1..MaxSplit, w \in 1..MaxWorkers :
          run = [sites |-> sites, sites_per_split |-> k, points_range |-> None,
                 n_workers |-> w, mem_util_lim |-> MemUtilLim,
                 chunks |-> <<>>, job |-> SmartJobArgs(w, MemUtilLim),
                 next |-> 1, running |-> {}, completed |-> 0,
                 above |-> TRUE, below |-> TRUE,
                 nflush |-> 0, calls |-> 0, endflush |-> 0]

\* run_smart, lines 438-471: the PointsControl and the Gen object are made and
\* SmartParallelJob.execute is called
SmartStart ==
    /\ pc = "plan"
    /\ run' = [run EXCEPT
                  !.chunks = MakePC(run.sites, run.points_range, run.sites_per_split),
                  !.job = SmartJobArgs(run.n_workers, run.mem_util_lim)]
    /\ pc' = "collect"
    /\ UNCHANGED <<out, fout, dirout, disk, dirs, ret, warned, log>>

\* the next chunk goes to a free worker; the controller does not wait for it
SmartSubmit ==
    /\ pc \in {"collect", "check"}
    /\ run.next <= Len(run.chunks)
    /\ Cardinality(run.running) < run.job.n_workers
    /\ run' = [run EXCEPT !.running = @ \cup {run.next}, !.next = @ + 1]
    /\ UNCHANGED <<out, fout, dirout, disk, dirs, ret, warned, log, pc>>

\* a chunk's future completes and its Result Record is merged into the table
SmartMerge ==
    /\ pc = "collect"
    /\ \E i \in run.running : \E raises \in BOOLEAN :
          LET r == GenRun(run.chunks[i], raises)
          IN  IF r.exc
              THEN /\ pc' = "aborted"
                   /\ UNCHANGED <<out, run>>
              ELSE /\ pc' = "check"
                   /\ out' = out_setter(out, PyDict(r.out)).out
                   /\ run' = [run EXCEPT !.running = @ \ {i},
                                         !.completed = @ + 1]
    /\ UNCHANGED <<fout, dirout, disk, dirs, ret, warned, log>>

\* the memory utilization is sampled; above the limit the table is flushed
\* and cleared: gen.flush(); gen.out = None
SmartCheck ==
    /\ pc = "check"
    /\ \E m \in MemSamples :
          IF m > run.job.mem_util_lim
          THEN /\ Flush
               /\ out' = out_setter(out, PyNone).out
               /\ run' = [run EXCEPT !.nflush = @ + 1, !.calls = @ + 1,
                                     !.above = @ /\ m > run.mem_util_lim,
                                     !.below = @ /\ m < run.mem_util_lim]
          ELSE /\ UNCHANGED <<out, ret, warned, dirs, disk, log>>
               /\ run' = [run EXCEPT !.above = @ /\ m > run.mem_util_lim,
                                     !.below = @ /\ m < run.mem_util_lim]
    /\ pc' = "collect"
    /\ UNCHANGED <<fout, dirout>>

\* every chunk has completed: the flush at the end of the run
SmartFinish ==
    /\ pc = "collect"
    /\ run.next > Len(run.chunks)
    /\ run.running = {}
    /\ Flush
    /\ out' = out_setter(out, PyNone).out
    /\ run' = [run EXCEPT !.endflush = @ + 1, !.calls = @ + 1]
    /\ pc' = "done"
    /\ UNCHANGED <<fout, dirout>>

NextSmart == SmartStart \/ SmartSubmit \/ SmartMerge \/ SmartCheck \/ SmartFinish

SpecSmart == InitSmart /\ [][NextSmart]_vars

-----------------------------------------------------------------------------
(* Merging Result Records into the Result Table: SpecMerge *)

\* the number of Result Records of a sequence
MaxRecs == 3

\* the sites and the records of the Result Records that are merged
MergeSites == {0, 1}
MergeValues == {0, 1}

\* every Result Record over these sites: a dict from some of the sites to
\* records
ResultRecords ==
    UNION {[D -> MergeValues] : D \in SUBSET MergeSites}

InitMerge ==
    /\ out = EmptyDict
    /\ fout = None
    /\ dirout = None
    /\ disk = <<>>
    /\ dirs = {}
    /\ ret = None
    /\ warned = FALSE
    /\ log = <<>>
    /\ pc = "merge"
    /\ \E n \in 0..MaxRecs : \E recs \in [1..n -> ResultRecords] :
          run = [recs |-> recs, left |-> 1..n, order |-> <<>>, lists |-> 0]

\* gen.out = x for one Result Record x (a dict)
MergeDict ==
    /\ pc = "merge"
    /\ \E i \in run.left :
          /\ out' = out_setter(out, PyDict(run.recs[i])).out
          /\ run' = [run EXCEPT !.left = @ \ {i}, !.order = Append(@, i)]
    /\ UNCHANGED <<fout, dirout, disk, dirs, ret, warned, log, pc>>

\* gen.out = [x, y] for a list of Result Records
MergeList ==
    /\ pc = "merge"
    /\ \E i \in run.left : \E j \in run.left \ {i} :
          /\ out' = out_setter(out, PyList(<<run.recs[i], run.recs[j]>>)).out
          /\ run' = [run EXCEPT !.left = @ \ {i, j},
                                !.order = @ \o <<i, j>>,
                                !.lists = @ + 1]
    /\ UNCHANGED <<fout, dirout, disk, dirs, ret, warned, log, pc>>

NextMerge == MergeDict \/ MergeList

SpecMerge == InitMerge /\ [][NextMerge]_vars

-----------------------------------------------------------------------------
(* A run and its chunks: C1, C2, C4 *)

Range(q) == {q[i] : i \in 1..Len(q)}

RECURSIVE Concat(_)
Concat(qs) == IF Len(qs) = 0 THEN <<>> ELSE qs[1] \o Concat(Tail(qs))

\* the sites of the chunks whose simulation call did not raise, each with the
\* record of the simulation
ExpectedTable ==
    [s \in UNION {Range(run.chunks[i]) : i \in (1..Len(run.chunks)) \ run.failed}
        |-> SimRec(s)]

\* C1: whatever chunks raise, no exception leaves the run and the run can go
\* on until it is done; the final Result Table then holds exactly the records
\* of the sites of the chunks that did not raise, and no site of a chunk that
\* raised.
C1_PartialFailure ==
    /\ pc # "aborted"
    /\ pc # "done" => ENABLED NextDirect
    /\ pc = "done" =>
          /\ out = ExpectedTable
          /\ \A i \in run.failed : Range(run.chunks[i]) \cap DOMAIN out = {}

\* C1 witness: a finished run of at least three chunks of which some raised
\* and some did not.
C1_Witness ==
    /\ pc = "done"
    /\ Len(run.chunks) >= 3
    /\ run.failed # {}
    /\ out # EmptyDict
    /\ out = ExpectedTable

\* the sites a run is asked for: all of them, or those of the sub-range
Requested ==
    IF run.points_range = None THEN run.sites
    ELSE SubSeq(run.sites, run.points_range[1] + 1, run.points_range[2])

SerialFutures(chunks) == [i \in 1..Len(chunks) |-> GenRun(chunks[i], FALSE).out]

\* C4: a finished parallel run in which no chunk raised ends with the Result
\* Table a serial run over the same chunks ends with, whatever the order in
\* which its chunks completed.
C4_SerialParallel ==
    (pc = "done" /\ run.n_workers > 1 /\ run.failed = {}) =>
        out = out_setter(EmptyDict, PyList(SerialFutures(run.chunks))).out

\* C4 witness: a finished parallel run without failure whose chunks did not
\* complete in the order of their submission.
C4_Witness ==
    /\ pc = "done"
    /\ run.n_workers > 1
    /\ run.failed = {}
    /\ Len(run.chunks) >= 2
    /\ \E i \in 1..Len(run.order) : run.order[i] # i
    /\ out = out_setter(EmptyDict, PyList(SerialFutures(run.chunks))).out

-----------------------------------------------------------------------------
(* The Smart Flush Controller and Gen.flush: C5, C6, C7 *)

\* the chunks of which the Result Table holds a record
ChunksInTable ==
    {i \in 1..Len(run.chunks) : Range(run.chunks[i]) \cap DOMAIN out # {}}

\* C5: as long as every sample of the memory utilization was above
\* mem_util_lim, the Result Table holds records of at most one chunk, and
\* there has been one flush-and-clear for every chunk that completed (the last
\* one is due while the controller has merged a chunk and not yet sampled).
C5_FlushPerChunk ==
    run.above =>
        /\ Cardinality(ChunksInTable) <= 1
        /\ pc \in {"collect", "done"} => run.nflush = run.completed
        /\ pc = "check" => run.nflush = run.completed - 1

\* C5 witness: a finished run of at least three chunks, every sample above
\* the limit, one flush-and-clear per chunk, several files written.
C5_Witness ==
    /\ pc = "done"
    /\ run.above
    /\ run.completed >= 3
    /\ run.nflush = run.completed
    /\ Len(log) >= 2

\* C6: as long as every sample of the memory utilization was below
\* mem_util_lim, nothing is flushed before the run is done, and the whole run
\* flushes at most once.
C6_FlushAtEnd ==
    run.below =>
        /\ run.nflush = 0
        /\ run.calls <= 1
        /\ Len(log) <= 1
        /\ pc # "done" => (run.calls = 0 /\ Len(log) = 0 /\ disk = <<>>)

\* C6 witness: a finished run of several chunks, every sample below the
\* limit, whose one file holds the records of more than one chunk.
C6_Witness ==
    /\ pc = "done"
    /\ run.below
    /\ run.completed >= 2
    /\ run.calls = 1
    /\ Len(log) = 1
    /\ Cardinality({i \in 1..Len(run.chunks) :
                       Range(run.chunks[i]) \cap DOMAIN disk[log[1]] # {}}) >= 2

\* C7: a step that calls Gen.flush writes a file exactly when fout is a string
\* and the Result Table is not empty, and the file then holds the table; a
\* flush of an empty table leaves the files and the directories as they were
\* and raises nothing; no other step changes the disk.
C7_FlushIff ==
    [][IF run'.calls # run.calls
       THEN /\ (Len(log') = Len(log) + 1) <=> (fout # None /\ out # EmptyDict)
            /\ Len(log') # Len(log) + 1 => (log' = log /\ disk' = disk)
            /\ Len(log') = Len(log) + 1 =>
                  /\ log'[Len(log')] \in DOMAIN disk'
                  /\ disk'[log'[Len(log')]] = out
            /\ out = EmptyDict =>
                  (disk' = disk /\ dirs' = dirs /\ pc' # "aborted")
       ELSE disk' = disk /\ dirs' = dirs /\ log' = log]_vars

\* C7 witness: a run with a string fout and a directory to create in which a
\* flush wrote a file and another flush, of an empty table, wrote none.
C7_Witness ==
    /\ pc = "done"
    /\ fout # None
    /\ dirout # None
    /\ Len(log) >= 1
    /\ Len(log) < run.calls

-----------------------------------------------------------------------------
(* Output file names: C8, C9, C10 *)

\* C8: the path handle_fout returns to a flush does not name a file that
\* exists when it is returned, so the write of the flush (the path appended to
\* log) never goes to a file that was on disk before it.
C8_NeverExisting ==
    [][Len(log') > Len(log) => log'[Len(log')] \notin DOMAIN disk]_vars

\* the requested name without its .h5 extension
Stem(f) == IF EndsWith(f, H5) THEN SubSeq(f, 1, Len(f) - 3) ELSE f

\* the n-th name of the series x_x000.h5, x_x001.h5, ... for the requested
\* name and directory
TaggedName(f, d, n) ==
    LET name == Stem(f) \o TagPrefix \o ZFill(IntToStr(n - 1), 3) \o H5
    IN  IF d # None /\ Len(d) > 0 THEN PathJoin(d, name) ELSE name

\* C9: when the only files on disk are those the flushes wrote, the n-th
\* write to the requested name went to the name with the three-digit tag
\* n-1, and no two writes went to the same file.
C9_TagSeries ==
    (DOMAIN disk) \subseteq Range(log) =>
        /\ \A n \in 1..Len(log) : log[n] = TaggedName(fout, dirout, n)
        /\ \A i, j \in 1..Len(log) : i # j => log[i] # log[j]

\* C10: every path handle_fout has returned ends in .h5, and the warning was
\* issued exactly when the requested name did not end in .h5.
C10_ExtensionH5 ==
    ret # None => /\ EndsWith(ret, H5)
                  /\ warned <=> ~EndsWith(fout, H5)

\* C10 witness: a name without .h5 was corrected, with the warning, and its
\* second write found the first one on disk.
C10_Witness ==
    /\ ret # None
    /\ ~EndsWith(fout, H5)
    /\ warned
    /\ Len(log) >= 2
    /\ EndsWith(ret, H5)

-----------------------------------------------------------------------------
(* The merge of Result Records: C3 *)

\* C3 as stated: when every Result Record of the sequence has been merged, in
\* whatever order and grouping, the Result Table is the one the merge of the
\* whole sequence in its own order gives.
C3_AnyRecords ==
    run.left = {} => out = unpack_futures(run.recs)

\* no two Result Records give different records for the same site
Compatible(recs) ==
    \A i, j \in 1..Len(recs) :
        \A s \in (DOMAIN recs[i]) \cap (DOMAIN recs[j]) : recs[i][s] = recs[j][s]

\* C3 amended: for Result Records of which no two give different records for
\* the same site, the Result Table after all of them have been merged, in
\* whatever order and grouping, is the merge of the sequence in its own order.
C3_CompatibleRecords ==
    (run.left = {} /\ Compatible(run.recs)) => out = unpack_futures(run.recs)

\* C3 witness: three Result Records, no two of them in conflict, not all
\* empty, merged in another order than their own, two of them as a list.
C3_Witness ==
    /\ run.left = {}
    /\ Len(run.recs) = 3
    /\ Compatible(run.recs)
    /\ \A i \in 1..3 : run.recs[i] # EmptyDict
    /\ run.recs[1] # run.recs[2]
    /\ run.order[1] # 1
    /\ run.lists = 1
    /\ out = unpack_futures(run.recs)

-----------------------------------------------------------------------------
(* Node fan-out (reV/generation/cli_gen.py): get_node_pc,                  *)
(* get_node_name_fout, get_node_cmd and the loops of peregrine and eagle   *)

\* s.strip(chars): the characters of chars are cut from both ends of s
RECURSIVE LStrip(_, _)
LStrip(s, chars) ==
    IF Len(s) > 0 /\ s[1] \in chars THEN LStrip(Tail(s), chars) ELSE s

RECURSIVE RStrip(_, _)
RStrip(s, chars) ==
    IF Len(s) > 0 /\ s[Len(s)] \in chars
    THEN RStrip(SubSeq(s, 1, Len(s) - 1), chars)
    ELSE s

Strip(s, chars) == RStrip(LStrip(s, chars), chars)

\* s[:n] for n >= 0
Prefix(s, n) == SubSeq(s, 1, IF n <= Len(s) THEN n ELSE Len(s))

\* a quotient rounded to the nearest integer, and at least 1
CeilRound(a, b) == IF (a + (b \div 2)) \div b = 0 THEN 1 ELSE (a + (b \div 2)) \div b

\* math.ceil(a / b) for a >= 0 and b >= 1
Ceil(a, b) == (a + b - 1) \div b

\* ProjectPoints(slice(0, n), ...): the sites 0..n-1 in their order
SliceSites(n) == [i \in 1..n |-> i - 1]

\* the split_range [i0, i1] of every chunk a PointsControl yields: the linear
\* indices of the chunk's first site and of the site after its last
RECURSIVE SplitRangesFrom(_, _)
SplitRangesFrom(chunks, i0) ==
    IF Len(chunks) = 0 THEN <<>>
    ELSE <<(<<i0, i0 + Len(chunks[1])>>)>>
             \o SplitRangesFrom(Tail(chunks), i0 + Len(chunks[1]))

SplitRanges(chunks) == SplitRangesFrom(chunks, 0)

\* a node PointsControl whose split size is the quotient rounded down
get_node_pc_floor(sites, nodes) ==
    PointsControl(sites, IF Len(sites) \div nodes = 0 THEN 1 ELSE Len(sites) \div nodes)

\* get_node_pc(points, sam_files, tech, res_file, nodes), for points given as
\* a slice, a list or a file name: a PointsControl over all the sites, with
\* sites_per_split = ceil(len(pp) / nodes)
get_node_pc(sites, nodes) == PointsControl(sites, Ceil(Len(sites), nodes))

\* the name length left to the base name, for the scheduler hpc: 14 for pbs,
\* 6 for slurm (the callers pass no other hpc)
NodeNameLim(hpc) == CASE hpc = "slurm" -> 6 [] hpc = "pbs" -> 14

\* '{:02d}'.format(i) for i >= 0: at least two digits, never a cut
Format02d(i) == ZFill(IntToStr(i), 2)

NodeSuffix == <<"_", "n", "o", "d", "e">>

\* get_node_name_fout(name, fout, i, hpc): the name of node job i and the
\* name of its output file
get_node_name_fout(name, f, i, hpc) ==
    [node_name |-> Prefix(name, NodeNameLim(hpc)) \o Format02d(i),
     fout_node |->
        (IF EndsWith(f, H5) THEN Strip(f, {".", "h", "5"}) ELSE f)
            \o NodeSuffix \o Format02d(i) \o H5]

\* SubprocessManager.s(x): x as one word of a command line
SubprocessManagerS(x) == x

\* a command line is the sequence of its words after "python -m
\* reV.generation.cli_gen": the name of a command, or an option with its value
CmdWord(name) == [kind |-> "cmd", flag |-> name, v |-> None]
OptWord(flag, v) == [kind |-> "opt", flag |-> flag, v |-> SubprocessManagerS(v)]

\* a node command that calls the peregrine command of the direct group
get_node_cmd_peregrine(name, points, points_range, f, d) ==
    << OptWord("-n", name), CmdWord("direct"), OptWord("-p", points),
       OptWord("-fo", f), OptWord("-do", d), CmdWord("peregrine"),
       OptWord("-nw", None), OptWord("-pr", points_range) >>

\* get_node_cmd(name, tech, points, points_range, ..., fout, dirout, ...):
\* the words of the command line "python -m reV.generation.cli_gen -n name
\* direct -p points ... -fo fout -do dirout ... local -nw None -pr
\* points_range" (the options that no definition here reads are left out)
get_node_cmd(name, points, points_range, f, d) ==
    << OptWord("-n", name), CmdWord("direct"), OptWord("-p", points),
       OptWord("-fo", f), OptWord("-do", d), CmdWord("local"),
       OptWord("-nw", None), OptWord("-pr", points_range) >>

\* the commands a command line names, in their order: click takes the words
\* that are no option and no value of an option as the names of the commands
CommandPath(cmd) ==
    LET cs == SelectSeq(cmd, LAMBDA w : w.kind = "cmd")
    IN  [k \in 1..Len(cs) |-> cs[k].flag]

\* the value the command line gives to the option flag
OptVal(cmd, flag) ==
    cmd[CHOOSE k \in 1..Len(cmd) : cmd[k].kind = "opt" /\ cmd[k].flag = flag].v

-----------------------------------------------------------------------------
(* A node fan-out and the node jobs it submits: SpecFanOut *)

\* the site counts of a fan-out: 1..MaxFanSites and 100
MaxFanSites == 5

\* the node counts of a fan-out: 1..MaxNodes
MaxNodes == 3

FanSiteCounts == (1..MaxFanSites) \cup {100}

\* the job names given with -n: the default and one longer than every limit
BaseJobNames ==
    { <<"r", "e", "V", "_", "g", "e", "n">>,
      <<"g", "e", "n", "e", "r", "a", "t", "i", "o", "n", "_", "r", "i", "_",
        "p", "v", "1">> }

\* the output file names given with -fo
BaseFouts == { <<"g", "e", "n", ".", "h", "5">> }

\* the id of the scheduler job of node i, when its submission succeeds
JobId(i) == <<"j">> \o IntToStr(i)

\* the loop over the node splits ends at the first failed submission
LoopAfterBreak(i, id, K) == IF id = None THEN K ELSE i + 1

\* the for loop of peregrine and eagle: the index of the iteration that
\* follows the iteration of node i, whose submission gave the job id `id`
\* (None when the submission failed); the loop ends at index K
LoopAfter(i, id, K) == i + 1

InitFanOut ==
    /\ out = EmptyDict
    /\ fout \in BaseFouts
    /\ dirout = <<"o">>
    /\ disk = <<>>
    /\ dirs = {}
    /\ ret = None
    /\ warned = FALSE
    /\ log = <<>>
    /\ pc = "plan"
    /\ \E n \in FanSiteCounts : \E nodes \in 1..MaxNodes :
       \E hpc \in {"pbs", "slurm"} : \E name \in BaseJobNames :
          run = [points |-> <<0, n>>, nodes |-> nodes, hpc |-> hpc,
                 name |-> name, splits |-> <<>>, i |-> 0,
                 jobs |-> <<>>, attempts |-> <<>>,
                 local |-> <<>>, nested |-> 0]

\* peregrine / eagle up to the loop: pc = get_node_pc(...), jobs = {}
FanOutPlan ==
    /\ pc = "plan"
    /\ pc' = "submit"
    /\ run' = [run EXCEPT !.splits =
                  SplitRanges(get_node_pc(SliceSites(run.points[2]), run.nodes))]
    /\ UNCHANGED <<out, fout, dirout, disk, dirs, ret, warned, log>>

\* one iteration of the loop `for i, split in enumerate(pc)`: the node's name,
\* output file and command, the submission to the scheduler, which gives a
\* job id or fails (id None), and jobs[i] = the job
NodeSubmit ==
    /\ pc = "submit"
    /\ run.i < Len(run.splits)
    /\ \E ok \in BOOLEAN :
       \E nf \in {get_node_name_fout(run.name, fout, run.i, run.hpc)} :
          LET i == run.i
              id == IF ok THEN JobId(i) ELSE None
              cmd == get_node_cmd(nf.node_name, run.points, run.splits[i + 1],
                                  nf.fout_node, dirout)
              job == [name |-> nf.node_name, fout |-> nf.fout_node,
                      cmd |-> cmd, id |-> id]
          IN  run' = [run EXCEPT
                        !.jobs = [k \in 0..i |-> IF k = i THEN job ELSE run.jobs[k]],
                        !.attempts = Append(@, i),
                        !.i = LoopAfter(i, id, Len(run.splits))]
    /\ UNCHANGED <<out, fout, dirout, disk, dirs, ret, warned, log, pc>>

\* the end of the loop: return jobs
FanOutReturn ==
    /\ pc = "submit"
    /\ run.i >= Len(run.splits)
    /\ pc' = "returned"
    /\ UNCHANGED <<out, fout, dirout, disk, dirs, ret, warned, log, run>>

\* the scheduler runs the command of a node job it accepted: main, then the
\* group direct, then the command the line names.  local runs the generation
\* over the points range of the line (Gen.run_smart); peregrine and eagle
\* submit node jobs.
NodeExec ==
    /\ pc \in {"submit", "returned"}
    /\ \E i \in DOMAIN run.jobs :
          /\ run.jobs[i].id # None
          /\ i \notin DOMAIN run.local
          /\ LET cmd == run.jobs[i].cmd
                 leaf == CommandPath(cmd)[Len(CommandPath(cmd))]
             IN  run' = [run EXCEPT
                           !.local = [k \in (DOMAIN run.local) \cup {i} |->
                                        IF k = i
                                        THEN [command |-> leaf,
                                              points_range |-> OptVal(cmd, "-pr")]
                                        ELSE run.local[k]],
                           !.nested = IF leaf \in {"peregrine", "eagle"}
                                      THEN @ + 1 ELSE @]
    /\ UNCHANGED <<out, fout, dirout, disk, dirs, ret, warned, log, pc>>

NextFanOut == FanOutPlan \/ NodeSubmit \/ FanOutReturn \/ NodeExec

SpecFanOut == InitFanOut /\ [][NextFanOut]_vars

-----------------------------------------------------------------------------
(* The node sub-ranges: C11, C12 *)

\* the indices of the range [r[1], r[2])
Indices(r) == r[1]..(r[2] - 1)

\* the points range the command of node job i carries
NodeRange(i) == OptVal(run.jobs[i].cmd, "-pr")

\* C11: for T >= 1 sites and N >= 1 nodes, node i is given the index range
\* [i*ceil(T/N), min((i+1)*ceil(T/N), T)): every node but the last has
\* ceil(T/N) sites, the last has between 1 and ceil(T/N), the ranges are
\* disjoint, increasing, and cover [0, T) exactly.
C11_NodeRanges ==
    pc # "plan" =>
        LET T == run.points[2]
            c == Ceil(T, run.nodes)
            K == Len(run.splits)
            size(k) == run.splits[k][2] - run.splits[k][1]
        IN  /\ K >= 1
            /\ \A k \in 1..K :
                  run.splits[k] =
                      <<(k - 1) * c, IF k * c <= T THEN k * c ELSE T>>
            /\ \A k \in 1..(K - 1) : size(k) = c
            /\ size(K) \in 1..c
            /\ \A k \in 1..(K - 1) : run.splits[k][2] = run.splits[k + 1][1]
            /\ \A k, l \in 1..K :
                  k # l => Indices(run.splits[k]) \cap Indices(run.splits[l]) = {}
            /\ UNION {Indices(run.splits[k]) : k \in 1..K} = 0..(T - 1)
            /\ \A i \in DOMAIN run.jobs : NodeRange(i) = run.splits[i + 1]

\* C11 witness: a fan-out of 5 sites over 3 nodes has returned three node
\* jobs, the last of them with fewer sites than ceil(5/3).
C11_Witness ==
    /\ pc = "returned"
    /\ run.points[2] = 5
    /\ run.nodes = 3
    /\ DOMAIN run.jobs = 0..2
    /\ NodeRange(2) = <<4, 5>>

\* C12 as stated: for 100 sites and 3 nodes the sub-ranges of the three node
\* jobs are [0,34), [34,67) and [67,100).
C12_Ranges100 ==
    (pc = "returned" /\ run.points[2] = 100 /\ run.nodes = 3) =>
        /\ DOMAIN run.jobs = 0..2
        /\ NodeRange(0) = <<0, 34>>
        /\ NodeRange(1) = <<34, 67>>
        /\ NodeRange(2) = <<67, 100>>

\* C12 amended: for 100 sites and 3 nodes the sub-ranges of the three node
\* jobs are [0,34), [34,68) and [68,100).
C12_CeilRanges100 ==
    (pc = "returned" /\ run.points[2] = 100 /\ run.nodes = 3) =>
        /\ DOMAIN run.jobs = 0..2
        /\ NodeRange(0) = <<0, 34>>
        /\ NodeRange(1) = <<34, 68>>
        /\ NodeRange(2) = <<68, 100>>

\* C12 witness: a fan-out of 100 sites over 3 nodes has returned its jobs, and
\* the last of them carries a range that ends at 100.
C12_Witness ==
    /\ pc = "returned"
    /\ run.points[2] = 100
    /\ run.nodes = 3
    /\ 2 \in DOMAIN run.jobs
    /\ NodeRange(2)[2] = 100

-----------------------------------------------------------------------------
(* The names of a node job: SpecNodeName *)

\* the node indices of a call: 0..MaxNodeIndex, and the indices around the
\* second and the third digit
MaxNodeIndex == 3

NodeIndices == (0..MaxNodeIndex) \cup {9, 10, 99, 100}

\* the job names of a call: the names of a fan-out and a name of 14
\* characters, the longest that is not cut for pbs
NodeJobNames ==
    BaseJobNames \cup
        { <<"r", "e", "V", "_", "g", "e", "n", "_", "r", "i", "_", "2", "0", "1">> }

\* the output file names of a call
NodeFouts ==
    BaseFouts \cup { <<"h", "5", "g", "e", "n", ".", "h", "5">>, <<"g", "e", "n">> }

InitNodeName ==
    /\ out = EmptyDict
    /\ fout \in NodeFouts
    /\ dirout = <<"o">>
    /\ disk = <<>>
    /\ dirs = {}
    /\ ret = None
    /\ warned = FALSE
    /\ log = <<>>
    /\ pc = "call"
    /\ \E name \in NodeJobNames : \E i \in NodeIndices : \E hpc \in {"pbs", "slurm"} :
          run = [name |-> name, i |-> i, hpc |-> hpc,
                 node_name |-> None, fout_node |-> None]

\* node_name, fout_node = get_node_name_fout(name, fout, i, hpc=hpc)
NodeNameCall ==
    /\ pc = "call"
    /\ pc' = "returned"
    /\ \E nf \in {get_node_name_fout(run.name, fout, run.i, run.hpc)} :
          run' = [run EXCEPT !.node_name = nf.node_name,
                             !.fout_node = nf.fout_node]
    /\ UNCHANGED <<out, fout, dirout, disk, dirs, ret, warned, log>>

NextNodeName == NodeNameCall

SpecNodeName == InitNodeName /\ [][NextNodeName]_vars

\* the longest job name the scheduler takes
SchedulerNameLimit(hpc) == CASE hpc = "pbs" -> 16 [] hpc = "slurm" -> 8

\* C13: for every base name and node index i >= 0 the node job name is at
\* most 16 characters for pbs and 8 for slurm, and ends with the complete node
\* index after a prefix of the base name: the suffix is never cut.
C13_NameFits ==
    pc = "returned" =>
        /\ Len(run.node_name) <= SchedulerNameLimit(run.hpc)
        /\ EndsWith(run.node_name, Format02d(run.i))
        /\ StartsWith(run.name,
                      SubSeq(run.node_name, 1,
                             Len(run.node_name) - Len(Format02d(run.i))))

-----------------------------------------------------------------------------
(* The submissions of a fan-out and what the node jobs run: C14, C15 *)

\* C14: in a fan-out over K node sub-ranges the submission is attempted once
\* for every node index 0..K-1, in increasing order, whatever submissions
\* fail: the loop goes on after a failed submission, and the jobs mapping
\* that is returned has an entry for every node index.
C14_AllSubmitted ==
    /\ run.attempts = [k \in 1..Len(run.attempts) |-> k - 1]
    /\ Len(run.attempts) = run.i
    /\ DOMAIN run.jobs = 0..(run.i - 1)
    /\ pc = "submit" => run.i <= Len(run.splits)
    /\ pc = "returned" =>
          /\ run.i = Len(run.splits)
          /\ DOMAIN run.jobs = 0..(Len(run.splits) - 1)

\* C14 witness: a fan-out over three sub-ranges has returned; the submissions
\* of nodes 0 and 1 failed, and node 2 was submitted after them.
C14_Witness ==
    /\ pc = "returned"
    /\ Len(run.splits) = 3
    /\ run.attempts = <<0, 1, 2>>
    /\ run.jobs[0].id = None
    /\ run.jobs[1].id = None
    /\ run.jobs[2].id # None

\* C15: every node command calls the local command of the direct group with
\* the points range of its node, and a node command that is run never gets to
\* the peregrine or eagle code: no node job submits a scheduler job.
C15_DepthOne ==
    /\ \A i \in DOMAIN run.jobs :
          /\ CommandPath(run.jobs[i].cmd) = <<"direct", "local">>
          /\ OptVal(run.jobs[i].cmd, "-pr") = run.splits[i + 1]
    /\ \A i \in DOMAIN run.local :
          /\ run.local[i].command = "local"
          /\ run.local[i].points_range = run.splits[i + 1]
    /\ run.nested = 0

\* C15 witness: the fan-out has returned three node jobs, all accepted by the
\* scheduler, and all three have run their command.
C15_Witness ==
    /\ pc = "returned"
    /\ DOMAIN run.jobs = 0..2
    /\ DOMAIN run.local = 0..2
    /\ run.local[2].command = "local"

-----------------------------------------------------------------------------
(* The technology of a run: SpecTech *)

\* the keys of Gen.funs
GenFuns == {"pv", "csp", "landbasedwind", "offshorewind"}

\* the technology names given to a run: the keys of Gen.funs and two names
\* that are no key
TechNames == GenFuns \cup {"solar", "PV"}

\* Gen.run(points_control, tech, ...) for one chunk: the look-up Gen.funs[tech]
\* is made inside the try, so the KeyError of a name that is no key is caught
\* like an exception of the simulation; out is the dict returned, exc whether
\* an exception leaves the call, caught the exception the except clause logged
GenRunTech(tech, chunk, raises) ==
    IF tech \notin GenFuns
    THEN [out |-> EmptyDict, exc |-> FALSE, caught |-> "KeyError"]
    ELSE [out |-> GenRun(chunk, raises).out, exc |-> GenRun(chunk, raises).exc,
          caught |-> IF raises THEN "Exception" ELSE "none"]

InitTech ==
    /\ out = EmptyDict
    /\ fout \in {None, <<"x", ".", "h", "5">>}
    /\ dirout = <<"o">>
    /\ disk = <<>>
    /\ dirs = {}
    /\ ret = None
    /\ warned = FALSE
    /\ log = <<>>
    /\ pc = "plan"
    /\ \E tech \in TechNames, sites \in SiteSets \ {<<>>}, k \in 1..MaxSplit :
          run = [tech |-> tech, sites |-> sites, sites_per_split |-> k,
                 chunks |-> <<>>, next |-> 1, futures |-> <<>>,
                 caught |-> <<>>]

\* run_direct, lines 355-373: ProjectPoints(points, sam_files, tech, ...),
\* the PointsControl and the Gen object are made; kwargs['tech'] = gen.tech
TechPlan ==
    /\ pc = "plan"
    /\ run' = [run EXCEPT !.chunks = MakePC(run.sites, None, run.sites_per_split)]
    /\ pc' = "exec"
    /\ UNCHANGED <<out, fout, dirout, disk, dirs, ret, warned, log>>

\* execute_single(gen.run, pc, tech=gen.tech, ...): Gen.run for the next chunk
TechRun ==
    /\ pc = "exec"
    /\ run.next <= Len(run.chunks)
    /\ \E raises \in BOOLEAN :
       \E r \in {GenRunTech(run.tech, run.chunks[run.next], raises)} :
          /\ pc' = IF r.exc THEN "aborted" ELSE pc
          /\ run' = [run EXCEPT !.next = @ + 1,
                                !.futures = Append(@, r.out),
                                !.caught = IF r.caught = "none" THEN @
                                           ELSE Append(@, r.caught)]
    /\ UNCHANGED <<out, fout, dirout, disk, dirs, ret, warned, log>>

\* run_direct, lines 384-388: gen.out = out; gen.flush()
TechFinish ==
    /\ pc = "exec"
    /\ run.next > Len(run.chunks)
    /\ \E r \in {out_setter(out, PyList(run.futures))} :
           /\ out' = r.out
           /\ FlushOf(r.out)
    /\ pc' = "done"
    /\ UNCHANGED <<fout, dirout, run>>

NextTech == TechPlan \/ TechRun \/ TechFinish

SpecTech == InitTech /\ [][NextTech]_vars

\* C16: a run whose technology name is no key of the technology table fails
\* with a configuration error: no chunk is handed to Gen.run, the name is not
\* handled as the failure of a chunk's simulation, and the run does not end
\* as a completed run.
C16_UnknownTechFails ==
    run.tech \notin GenFuns =>
        /\ run.next = 1
        /\ run.caught = <<>>
        /\ pc # "done"

-----------------------------------------------------------------------------
(* A run from a config file, year by year: SpecConfig *)

\* the largest number of years of a config
MaxYears == 2

\* the sites of the config's project points, and its nodes / ppn
ConfigSites == SliceSites(3)
ConfigNodes == 2

\* the years and the resource files a config can name
ConfigYears == {2012, 2013}

ConfigResFiles ==
    { <<"r", "_", "2", "0", "1", "2", ".", "h", "5">>,
      <<"r", "_", "2", "0", "1", "3", ".", "h", "5">> }

\* the job names: the default, one longer than every limit and one that
\* holds a year
ConfigNames ==
    BaseJobNames \cup { <<"g", "e", "n", "_", "2", "0", "1", "2">> }

ConfigOptions == {"local", "peregrine", "eagle", "aws"}

\* p in s, for strings s and p
Contains(s, p) == \E i \in 1..(Len(s) + 1) : OccursAt(s, p, i)

\* re.match(r'.*([1-3][0-9]{3})', name) matches: a year is in the name, with
\* no newline before it
ReMatchYear(name) ==
    \E i \in 1..(Len(name) - 3) :
        /\ name[i] \in {"1", "2", "3"}
        /\ \A j \in 1..3 : IsDigit(name[i + j])
        /\ \A j \in 1..(i - 1) : name[j] # "\n"

\* s[-2:]
Last2(s) == SubSeq(s, IF Len(s) >= 2 THEN Len(s) - 1 ELSE 1, Len(s))

\* '{}_{}.h5'.format(name, year)
YearFout(name, year) == name \o <<"_">> \o IntToStr(year) \o H5

\* '{}_{}'.format(name[:lim], str(year)[-2:])
YearName(name, year, lim) == Prefix(name, lim) \o <<"_">> \o Last2(IntToStr(year))

\* ctx.obj has no key 'FOUT'
NoKey == <<"<no key>">>

InitConfig ==
    /\ out = EmptyDict
    /\ fout = NoKey
    /\ dirout = <<"o">>
    /\ disk = <<>>
    /\ dirs = {}
    /\ ret = None
    /\ warned = FALSE
    /\ log = <<>>
    /\ pc = "years"
    /\ \E n \in 1..MaxYears :
       \E years \in [1..n -> ConfigYears], res_files \in [1..n -> ConfigResFiles] :
       \E name \in ConfigNames, option \in ConfigOptions :
          run = [years |-> years, res_files |-> res_files, name |-> name,
                 option |-> option, i |-> 1, NAME |-> name,
                 dispatched |-> <<>>, submitted |-> <<>>, error |-> "none"]

\* the chunks ctx.invoke(local, n_workers=ppn, points_range=None) hands to
\* the workers, for one year, with sites_per_core = ceil(len(pc) / ppn) and
\* fout = ctx.obj['FOUT']
LocalDispatch(year, f) ==
    LET chunks == PointsControl(ConfigSites, Ceil(Len(ConfigSites), ConfigNodes))
    IN  [k \in 1..Len(chunks) |-> [year |-> year, fout |-> f, chunk |-> chunks[k]]]

\* the node jobs ctx.invoke(peregrine, ...) or ctx.invoke(eagle, ...) submits
\* for one year
NodeSubmits(year, name, f, hpc) ==
    LET splits == SplitRanges(get_node_pc(ConfigSites, ConfigNodes))
    IN  [k \in 1..Len(splits) |->
            [year |-> year,
             name |-> get_node_name_fout(name, f, k - 1, hpc).node_name,
             fout |-> get_node_name_fout(name, f, k - 1, hpc).fout_node,
             points_range |-> splits[k]]]

\* the state after the year check of submit_from_config passed for year i:
\* the command of the execution option is invoked with the ctx.obj given.
\* local, peregrine and eagle read ctx.obj['FOUT'], which no line has set
\* when the job name holds a year: a KeyError.
Invoke(year, name, f, match) ==
    IF run.option \notin {"local", "peregrine", "eagle"}
    THEN /\ pc' = "error"
         /\ run' = [run EXCEPT !.error = "ConfigError"]
    ELSE IF f = NoKey
    THEN /\ pc' = "error"
         /\ run' = [run EXCEPT !.error = "KeyError"]
    ELSE IF run.option = "local"
    THEN /\ pc' = pc
         /\ run' = [run EXCEPT !.i = @ + 1,
                               !.dispatched = @ \o LocalDispatch(year, f)]
    ELSE LET lim == IF run.option = "peregrine" THEN 11 ELSE 3
             hpc == IF run.option = "peregrine" THEN "pbs" ELSE "slurm"
             nm == IF match THEN run.NAME ELSE YearName(name, year, lim)
         IN  /\ pc' = pc
             /\ run' = [run EXCEPT !.i = @ + 1,
                                   !.NAME = nm,
                                   !.submitted = @ \o NodeSubmits(year, nm, f, hpc)]

\* one iteration of the loop of from_config: submit_from_config(ctx, name,
\* year, config, verbose, i)
SubmitFromConfig ==
    /\ pc = "years"
    /\ run.i <= Len(run.years)
    /\ LET year == run.years[run.i]
           res_file == run.res_files[run.i]
           match == ReMatchYear(run.name)
           f == IF match THEN fout ELSE YearFout(run.name, year)
       IN  /\ fout' = f
           /\ IF ~Contains(res_file, IntToStr(year))
              THEN /\ pc' = "error"
                   /\ run' = [run EXCEPT !.error = "Exception"]
              ELSE Invoke(year, run.name, f, match)
    /\ UNCHANGED <<out, dirout, disk, dirs, ret, warned, log>>

\* the loop of from_config has ended
ConfigReturn ==
    /\ pc = "years"
    /\ run.i > Len(run.years)
    /\ pc' = "done"
    /\ UNCHANGED <<out, fout, dirout, disk, dirs, ret, warned, log, run>>

NextConfig == SubmitFromConfig \/ ConfigReturn

SpecConfig == InitConfig /\ [][NextConfig]_vars

\* some configured year is not in the name of its resource file
YearMismatch ==
    \E k \in 1..Len(run.years) :
        ~Contains(run.res_files[k], IntToStr(run.years[k]))

\* C17: in a run over the years of a config, if the resource file of any
\* year does not hold that year in its name, the run fails with an error
\* before any chunk is dispatched and before any node job is submitted, for
\* any year of the run.
C17_FailFast ==
    YearMismatch =>
        /\ run.dispatched = <<>>
        /\ run.submitted = <<>>
        /\ pc # "done"

-----------------------------------------------------------------------------
(* Gen.time_index: SpecTime *)

\* the largest number of entries of a resource time index
MaxTimes == 3

\* the largest number of accesses of gen.time_index
MaxGets == 2

\* the entries of a time index: time stamps with their month, day and hour
Stamp(m, d, h) == [month |-> m, day |-> d, hour |-> h]

Stamps ==
    { Stamp(1, 29, 0), Stamp(2, 28, 0), Stamp(2, 29, 0), Stamp(2, 29, 12),
      Stamp(3, 1, 0) }

\* the mask of the entries of a day 29, whatever the month
leap_day_any_month(ti) == [k \in 1..Len(ti) |-> ti[k].day = 29]

\* (ti.month == 2) & (ti.day == 29): the mask of the leap day entries
leap_day(ti) == [k \in 1..Len(ti) |-> ti[k].month = 2 /\ ti[k].day = 29]

\* ti[mask]: the entries the mask selects
MaskSelect(ti, mask) == {ti[k] : k \in {j \in 1..Len(ti) : mask[j]}}

\* ti.drop(labels): the index without the entries equal to one of the labels
IndexDrop(ti, labels) == SelectSeq(ti, LAMBDA t : t \notin labels)

\* the getter of Gen.time_index, for a Gen object that has the attribute
\* _time_index (has, with value attr) or not: the attribute after the call,
\* which is also the value returned
time_index(has, attr, res_ti) ==
    IF ~has
    THEN IndexDrop(res_ti, MaskSelect(res_ti, leap_day(res_ti)))
    ELSE attr

\* the time indexes of a resource file: time stamps in any order, none of
\* them twice
TimeIndexes ==
    UNION { {ti \in [1..n -> Stamps] : \A i, j \in 1..n : i # j => ti[i] # ti[j]}
            : n \in 0..MaxTimes }

InitTime ==
    /\ out = EmptyDict
    /\ fout = None
    /\ dirout = None
    /\ disk = <<>>
    /\ dirs = {}
    /\ ret = None
    /\ warned = FALSE
    /\ log = <<>>
    /\ pc = "time"
    /\ \E ti \in TimeIndexes :
          run = [res |-> ti, has |-> FALSE, attr |-> <<>>, loaded |-> <<>>,
                 returned |-> <<>>]

\* gen.time_index is read
TimeIndexGet ==
    /\ pc = "time"
    /\ Len(run.returned) < MaxGets
    /\ \E v \in {time_index(run.has, run.attr, run.res)} :
          run' = [run EXCEPT !.has = TRUE,
                             !.attr = v,
                             !.loaded = IF run.has THEN @ ELSE run.res,
                             !.returned = Append(@, v)]
    /\ UNCHANGED <<out, fout, dirout, disk, dirs, ret, warned, log, pc>>

\* the resource file is written again, with a time index that starts later
ResourceRewrite ==
    /\ pc = "time"
    /\ Len(run.res) > 0
    /\ run' = [run EXCEPT !.res = Tail(@)]
    /\ UNCHANGED <<out, fout, dirout, disk, dirs, ret, warned, log, pc>>

NextTime == TimeIndexGet \/ ResourceRewrite

SpecTime == InitTime /\ [][NextTime]_vars

\* whether an entry is of month 2, day 29
IsLeapDay(t) == t.month = 2 /\ t.day = 29

\* the positions of ti that hold no leap day entry, in increasing order
RECURSIVE KeptFrom(_, _)
KeptFrom(ti, k) ==
    IF k > Len(ti) THEN <<>>
    ELSE (IF IsLeapDay(ti[k]) THEN <<>> ELSE <<k>>) \o KeptFrom(ti, k + 1)

\* C18: the time index Gen.time_index returns is the resource's index, as
\* read at the first access, with exactly the entries of month 2, day 29
\* removed, every other entry kept in its order; every later access returns
\* the same result.
C18_LeapDayDropped ==
    \A g \in 1..Len(run.returned) :
        LET kept == KeptFrom(run.loaded, 1)
        IN  /\ Len(run.returned[g]) = Len(kept)
            /\ \A k \in 1..Len(kept) : run.returned[g][k] = run.loaded[kept[k]]
            /\ run.returned[g] = run.returned[1]

\* C18 witness: the index read at the first access holds a leap day entry
\* between two other entries; the resource was rewritten before the second
\* access, which returned the two other entries again.
C18_Witness ==
    /\ Len(run.returned) = 2
    /\ Len(run.loaded) = 3
    /\ IsLeapDay(run.loaded[2])
    /\ ~IsLeapDay(run.loaded[1])
    /\ run.loaded[3].day = 29 /\ run.loaded[3].month = 1
    /\ run.res # run.loaded
    /\ Len(run.returned[2]) = 2

-----------------------------------------------------------------------------
(* The means view and the profiles view of a Result Table: SpecViews *)

\* the largest number of sites of a Result Table
MaxKeys == 3

\* the number of time steps of a profile
ProfileLen == 2

\* a site identifier: an int or a str, written with its digits
IntKey(n) == [type |-> "int", s |-> IntToStr(n)]
StrKey(d) == [type |-> "str", s |-> d]

\* float(k) for a site identifier k
Float(k) == StrToInt(k.s)

\* the site identifiers of the tables: ints and strings, of one and of two
\* digits
KeyPool ==
    { IntKey(9), IntKey(10), IntKey(11), StrKey(<<"9">>), StrKey(<<"1", "0">>),
      StrKey(<<"2">>) }

\* the order of str: s < t, character by character
RECURSIVE LexLess(_, _)
LexLess(s, t) ==
    IF Len(t) = 0 THEN FALSE
    ELSE IF Len(s) = 0 THEN TRUE
    ELSE IF s[1] # t[1] THEN DigitVal(s[1]) < DigitVal(t[1])
    ELSE LexLess(Tail(s), Tail(t))

\* the order of the identifiers as strings
KeyLessLex(a, b) == LexLess(a.s, b.s)

\* the order sorted(..., key=float) compares with: float(a) < float(b)
KeyLess(a, b) == Float(a) < Float(b)

\* sorted(keys, key=float): a stable sort, an identifier is put after the
\* identifiers that are not greater
RECURSIVE InsertKey(_, _)
InsertKey(q, k) ==
    IF Len(q) = 0 THEN <<k>>
    ELSE IF KeyLess(k, q[1]) THEN <<k>> \o q
    ELSE <<q[1]>> \o InsertKey(Tail(q), k)

RECURSIVE SortedKeys(_)
SortedKeys(keys) ==
    IF Len(keys) = 0 THEN <<>>
    ELSE InsertKey(SortedKeys(SubSeq(keys, 1, Len(keys) - 1)), keys[Len(keys)])

\* the record of site k in the tables: its cf_mean and its cf_profile
ViewRec(k) ==
    [cf_mean |-> 100 - Float(k),
     cf_profile |-> [t \in 1..ProfileLen |-> 10 * Float(k) + t]]

\* Gen.unpack_cf_means(gen_out), for a dict with the keys `keys` in their
\* order of insertion: a 1d array
unpack_cf_means(keys, gen_out) ==
    LET sorted_keys == SortedKeys(keys)
    IN  [j \in 1..Len(sorted_keys) |-> gen_out[sorted_keys[j]].cf_mean]

\* Gen.unpack_cf_profiles(gen_out): the array of the profiles, one row per
\* site, transposed: one row per time step, one column per site
unpack_cf_profiles(keys, gen_out) ==
    LET sorted_keys == SortedKeys(keys)
    IN  IF Len(sorted_keys) = 0 THEN <<>>
        ELSE [t \in 1..ProfileLen |->
                [j \in 1..Len(sorted_keys) |-> gen_out[sorted_keys[j]].cf_profile[t]]]

\* the key sequences of the tables: sites of different numeric values, in
\* any order of insertion
KeySeqs ==
    UNION { {q \in [1..n -> KeyPool] :
                \A i, j \in 1..n : i # j => Float(q[i]) # Float(q[j])}
            : n \in 0..MaxKeys }

InitViews ==
    /\ fout = None
    /\ dirout = None
    /\ disk = <<>>
    /\ dirs = {}
    /\ ret = None
    /\ warned = FALSE
    /\ log = <<>>
    /\ pc = "views"
    /\ \E keys \in KeySeqs :
          /\ out = [k \in {keys[i] : i \in 1..Len(keys)} |-> ViewRec(k)]
          /\ run = [keys |-> keys, has_means |-> FALSE, means |-> <<>>,
                    has_profiles |-> FALSE, profiles |-> <<>>]

\* means_to_disk: cf_means = self.unpack_cf_means(self.out)
UnpackMeans ==
    /\ pc = "views"
    /\ ~run.has_means
    /\ run' = [run EXCEPT !.has_means = TRUE,
                          !.means = unpack_cf_means(run.keys, out)]
    /\ UNCHANGED <<out, fout, dirout, disk, dirs, ret, warned, log, pc>>

\* profiles_to_disk: cf_profiles = self.unpack_cf_profiles(self.out)
UnpackProfiles ==
    /\ pc = "views"
    /\ ~run.has_profiles
    /\ run' = [run EXCEPT !.has_profiles = TRUE,
                          !.profiles = unpack_cf_profiles(run.keys, out)]
    /\ UNCHANGED <<out, fout, dirout, disk, dirs, ret, warned, log, pc>>

NextViews == UnpackMeans \/ UnpackProfiles

SpecViews == InitViews /\ [][NextViews]_vars

\* the site of the table that has exactly j - 1 sites of smaller numeric value
SiteAtRank(j) ==
    CHOOSE k \in DOMAIN out :
        Cardinality({l \in DOMAIN out : Float(l) < Float(k)}) = j - 1

\* C19: the means view has exactly one entry per site and the profiles view
\* one series per site, both in the order of increasing numeric value of the
\* site identifier (9 before 10, also for strings), so both in the same order.
C19_ViewsSorted ==
    LET n == Cardinality(DOMAIN out)
    IN  /\ run.has_means =>
              /\ Len(run.means) = n
              /\ \A j \in 1..n : run.means[j] = out[SiteAtRank(j)].cf_mean
        /\ (run.has_profiles /\ n > 0) =>
              /\ Len(run.profiles) = ProfileLen
              /\ \A t \in 1..ProfileLen :
                    /\ Len(run.profiles[t]) = n
                    /\ \A j \in 1..n :
                          run.profiles[t][j] = out[SiteAtRank(j)].cf_profile[t]
        /\ (run.has_means /\ run.has_profiles) =>
              \A j \in 1..n :
                 \E k \in DOMAIN out :
                    /\ run.means[j] = out[k].cf_mean
                    /\ \A t \in 1..ProfileLen :
                          run.profiles[t][j] = out[k].cf_profile[t]

\* C19 witness: a table with the sites '10', '9' and '2', given as strings and
\* inserted in this order, has been unpacked to both views: site '9' is
\* before site '10' in both.
C19_Witness ==
    /\ run.keys = << StrKey(<<"1", "0">>), StrKey(<<"9">>), StrKey(<<"2">>) >>
    /\ run.has_means
    /\ run.has_profiles
    /\ run.means = <<98, 91, 90>>
    /\ run.profiles[1] = <<21, 91, 101>>

-----------------------------------------------------------------------------
(* Assignments to Gen.out, one after the other: SpecSetter *)

\* a value of a type that is no list, no dict and not None
PyOther(t) == [type |-> t]

\* the values assigned to gen.out: Result Records, lists of up to two Result
\* Records, None, and values of other types
SetterValues ==
    {PyDict(r) : r \in ResultRecords}
        \cup {PyList(<<>>)}
        \cup {PyList(<<r>>) : r \in ResultRecords}
        \cup {PyList(<<r, q>>) : r \in ResultRecords, q \in ResultRecords}
        \cup {PyNone}
        \cup {PyOther(t) : t \in {"tuple", "int", "str"}}

InitSetter ==
    /\ out = EmptyDict
    /\ fout = None
    /\ dirout = None
    /\ disk = <<>>
    /\ dirs = {}
    /\ ret = None
    /\ warned = FALSE
    /\ log = <<>>
    /\ pc = "set"
    /\ run = [prev |-> EmptyDict, value |-> PyNone, err |-> FALSE,
              assigned |-> FALSE]

\* gen.out = value: the table before the assignment, the value and whether
\* TypeError was raised are kept in run
SetOut ==
    /\ pc = "set"
    /\ \E value \in SetterValues :
       \E r \in {out_setter(out, value)} :
          /\ out' = r.out
          /\ run' = [prev |-> out, value |-> value, err |-> r.err,
                     assigned |-> TRUE]
    /\ UNCHANGED <<fout, dirout, disk, dirs, ret, warned, log, pc>>

NextSetter == SetOut

SpecSetter == InitSetter /\ [][NextSetter]_vars

\* the Result Record a list or a dict assigned to gen.out holds
MergedRecord(value) ==
    IF value.type = "list" THEN unpack_futures(value.v) ELSE value.v

\* the last assignment was a merge
LastIsMerge == run.assigned /\ run.value.type \in {"list", "dict"}

\* C21 as stated: a merge leaves every site of the table in the table, with
\* the record it had: it only adds records for other sites.
C21_Immutable ==
    LastIsMerge =>
        \A s \in DOMAIN run.prev : s \in DOMAIN out /\ out[s] = run.prev[s]

\* C21 amended: a merge leaves every site of the table in the table; the
\* record of a site changes only when the merged Result Record holds the site
\* (the last write wins), so a merge of records for other sites only adds.
C21_ImmutableUnlessRewritten ==
    LastIsMerge =>
        \A s \in DOMAIN run.prev :
            /\ s \in DOMAIN out
            /\ out[s] = IF s \in DOMAIN MergedRecord(run.value)
                        THEN MergedRecord(run.value)[s]
                        ELSE run.prev[s]

\* C21 witness: a merge of a record for site 1 into a table that holds site 0
\* has kept the record of site 0.
C21_Witness ==
    /\ LastIsMerge
    /\ DOMAIN run.prev = {0}
    /\ DOMAIN MergedRecord(run.value) = {1}
    /\ DOMAIN out = {0, 1}
    /\ out[0] = run.prev[0]

\* C25: an assignment of a value that is no list, no dict and not None raises
\* TypeError and leaves the table as it was; None empties the table; a list
\* or a dict never removes a site of the table.
C25_SetterTypes ==
    run.assigned =>
        /\ run.value.type \notin {"list", "dict", "None"} =>
              run.err /\ out = run.prev
        /\ run.value.type = "None" => ~run.err /\ out = EmptyDict
        /\ run.value.type \in {"list", "dict"} =>
              ~run.err /\ DOMAIN run.prev \subseteq DOMAIN out

\* C25 witness: a tuple was assigned to a table of two sites; TypeError was
\* raised and the two sites are still in the table.
C25_Witness ==
    /\ run.assigned
    /\ run.value.type = "tuple"
    /\ run.err
    /\ DOMAIN out = {0, 1}
    /\ out = run.prev

-----------------------------------------------------------------------------
(* Flush-and-clear against the merges of a smart run: C22 *)

\* the files that hold a record of site s
FilesOf(d, s) == {p \in DOMAIN d : s \in DOMAIN d[p]}

\* a step in which a record leaves the table writes it to one new file, with
\* the whole table, merges nothing and leaves the table empty; a file once
\* written is not written again; no site is in two files or in a file and in
\* the table
FlushIsAtomic ==
    /\ \A s \in DOMAIN out :
          s \notin DOMAIN out' =>
              /\ Len(log') = Len(log) + 1
              /\ log'[Len(log')] \notin DOMAIN disk
              /\ disk'[log'[Len(log')]] = out
              /\ out' = EmptyDict
              /\ run'.completed = run.completed
    /\ \A p \in DOMAIN disk : p \in DOMAIN disk' /\ disk'[p] = disk[p]
    /\ \A s \in DOMAIN out' : FilesOf(disk', s) = {}
    /\ \A p, q \in DOMAIN disk' :
          p # q => (DOMAIN disk'[p]) \cap (DOMAIN disk'[q]) = {}

-----------------------------------------------------------------------------
(* The default chunk size of a smart run: SpecChunk *)

\* the largest number of datasets of a resource file
MaxDsets == 2

\* the default of Gen.sites_per_core
DefaultSitesPerCore == 100

\* c.lower() for one character
LowerChar(c) ==
    CASE c = "W" -> "w" [] c = "T" -> "t" [] c = "K" -> "k"
      [] c = "N" -> "n" [] c = "S" -> "s" [] c = "R" -> "r"
      [] c = "D" -> "d" [] c = "B" -> "b" [] OTHER -> c

\* s.lower()
Lower(s) == [i \in 1..Len(s) |-> LowerChar(s[i])]

\* the names of the resource files: an NSRDB file, a WTK file in capitals, a
\* file whose name holds neither, a file whose name holds both
ChunkResNames ==
    { <<"r", "i", "_", "n", "s", "r", "d", "b", "_", "2", "0", "1", "2", ".", "h", "5">>,
      <<"r", "i", "_", "W", "T", "K", "_", "2", "0", "1", "2", ".", "h", "5">>,
      <<"r", "i", "_", "r", "e", "s", "_", "2", "0", "1", "2", ".", "h", "5">>,
      <<"n", "s", "r", "d", "b", "_", "w", "t", "k", ".", "h", "5">> }

\* the names of the datasets of a resource file
DsetNames ==
    { <<"d", "n", "i">>, <<"g", "h", "i">>, <<"w", "i", "n", "d", "s", "p", "e", "e", "d", "_", "8", "0", "m">> }

\* a dataset: its name and its chunks attribute, None (has_chunks FALSE) when
\* the dataset is not chunked, else (time steps, sites) per chunk
Dsets ==
    {[name |-> n, has_chunks |-> FALSE, chunks |-> <<>>] : n \in DsetNames}
        \cup {[name |-> n, has_chunks |-> TRUE, chunks |-> <<8760, c>>] :
                 n \in DsetNames, c \in {50}}

\* res.dsets: up to MaxDsets datasets of different names
DsetLists ==
    UNION { {q \in [1..n -> Dsets] :
                \A i, j \in 1..n : i # j => q[i].name # q[j].name}
            : n \in 0..MaxDsets }

\* the datasets of the list whose name holds the string p, in their order
DsetsWith(dsets, p) == SelectSeq(dsets, LAMBDA d : Contains(d.name, p))

\* the result of sites_per_core for the dataset the chunks are taken from
ChunkResult(d) ==
    IF d.has_chunks
    THEN [value |-> d.chunks[2], err |-> "none"]
    ELSE [value |-> DefaultSitesPerCore, err |-> "none"]

\* Gen.sites_per_core(res_file), for a resource file with the datasets dsets:
\* the value returned, or the exception raised (value 0)
sites_per_core(res_file, dsets) ==
    IF Contains(Lower(res_file), <<"w", "t", "k">>)
    THEN IF Len(DsetsWith(dsets, <<"s", "p", "e", "e", "d">>)) = 0
         THEN [value |-> 0, err |-> "UnboundLocalError"]
         ELSE ChunkResult(DsetsWith(dsets, <<"s", "p", "e", "e", "d">>)[1])
    ELSE IF Contains(Lower(res_file), <<"n", "s", "r", "d", "b">>)
    THEN IF \A k \in 1..Len(dsets) : dsets[k].name # <<"d", "n", "i">>
         THEN [value |-> 0, err |-> "KeyError"]
         ELSE ChunkResult(SelectSeq(dsets, LAMBDA d : d.name = <<"d", "n", "i">>)[1])
    ELSE [value |-> 0, err |-> "Exception"]

InitChunk ==
    /\ out = EmptyDict
    /\ fout = None
    /\ dirout = <<"o">>
    /\ disk = <<>>
    /\ dirs = {}
    /\ ret = None
    /\ warned = FALSE
    /\ log = <<>>
    /\ pc = "start"
    /\ \E res_file \in ChunkResNames, dsets \in DsetLists :
       \E given \in 0..MaxSplit :
          run = [res_file |-> res_file, dsets |-> dsets, given |-> given,
                 sites_per_split |-> given, err |-> "none"]

\* run_smart, lines 443-444: sites_per_split given (given > 0), or None
\* (given = 0) and then taken from Gen.sites_per_core(res_file)
SmartChunkSize ==
    /\ pc = "start"
    /\ IF run.given # 0
       THEN /\ pc' = "planned"
            /\ UNCHANGED run
       ELSE \E r \in {sites_per_core(run.res_file, run.dsets)} :
               /\ pc' = IF r.err = "none" THEN "planned" ELSE "error"
               /\ run' = [run EXCEPT !.sites_per_split = r.value, !.err = r.err]
    /\ UNCHANGED <<out, fout, dirout, disk, dirs, ret, warned, log>>

NextChunk == SmartChunkSize

SpecChunk == InitChunk /\ [][NextChunk]_vars

\* the datasets of the run's resource file that give its native chunks: the
\* first wind speed dataset of a WTK file, dni of an NSRDB file
HintDsets ==
    IF Contains(Lower(run.res_file), <<"w", "t", "k">>)
    THEN DsetsWith(run.dsets, <<"s", "p", "e", "e", "d">>)
    ELSE IF Contains(Lower(run.res_file), <<"n", "s", "r", "d", "b">>)
    THEN DsetsWith(run.dsets, <<"d", "n", "i">>)
    ELSE <<>>

\* the resource file gives a native chunk length along the sites
HintAvailable == Len(HintDsets) > 0 /\ HintDsets[1].has_chunks

\* C23: when no chunk size is given to a smart run, the chunk size is the
\* resource file's native chunk length along the sites; for every resource
\* file that gives no such length the chunk size is the default 100 and no
\* error is raised.
C23_DefaultChunk ==
    (pc # "start" /\ run.given = 0) =>
        /\ pc = "planned"
        /\ run.err = "none"
        /\ run.sites_per_split =
              IF HintAvailable THEN HintDsets[1].chunks[2] ELSE 100

-----------------------------------------------------------------------------
(* The output file name of a node job, under SpecNodeName *)

\* the base output file name without its .h5 extension
BaseStem ==
    IF EndsWith(fout, <<".", "h", "5">>)
    THEN SubSeq(fout, 1, Len(fout) - 3)
    ELSE fout

\* C24: for every base output file name, with or without the .h5 extension,
\* and every node index, the node output file name is the base name without
\* its .h5 extension, followed by '_node', the two-digit node index and '.h5':
\* no other character of the base name is removed or changed.
C24_FoutNode ==
    (pc = "returned" /\ run.i < 100) =>
        run.fout_node =
            BaseStem \o NodeSuffix \o Format02d(run.i) \o <<".", "h", "5">>

-----------------------------------------------------------------------------
(* The metadata table and the data of an output write: SpecWrite *)

\* the order of sorted(...) without a key, for two identifiers of one type:
\* ints by value, strs character by character
PlainLess(a, b) ==
    IF a.type = "int" THEN Float(a) < Float(b) ELSE LexLess(a.s, b.s)

\* sorted(keys), for identifiers of one type
RECURSIVE InsertPlain(_, _)
InsertPlain(q, k) ==
    IF Len(q) = 0 THEN <<k>>
    ELSE IF PlainLess(k, q[1]) THEN <<k>> \o q
    ELSE <<q[1]>> \o InsertPlain(Tail(q), k)

RECURSIVE SortedPlain(_)
SortedPlain(keys) ==
    IF Len(keys) = 0 THEN <<>>
    ELSE InsertPlain(SortedPlain(SubSeq(keys, 1, Len(keys) - 1)), keys[Len(keys)])

\* res['meta', finished_sites]: the rows of the resource's metadata for the
\* sites, in the order of the sites
ResourceMeta(finished_sites) == finished_sites

\* Gen.meta, for a table with the keys `keys`: the gid column of the metadata
\* table; sorted(...) of an int and a str raises TypeError
meta(keys) ==
    IF \E i, j \in 1..Len(keys) : keys[i].type # keys[j].type
    THEN [err |-> "TypeError", gid |-> <<>>]
    ELSE LET finished_sites == SortedPlain(keys)
         IN  [err |-> "none", gid |-> ResourceMeta(finished_sites)]

\* no write yet
NoWrite == [err |-> "none", gid |-> <<>>, cf_means |-> <<>>, data |-> <<>>]

\* what a write hands to the writer: the metadata table (its columns gid and
\* cf_means) and the data
OutputWrite(keys, gen_out, data) ==
    LET m == meta(keys)
    IN  IF m.err # "none"
        THEN [err |-> m.err, gid |-> <<>>, cf_means |-> <<>>, data |-> <<>>]
        ELSE [err |-> "none", gid |-> m.gid,
              cf_means |-> unpack_cf_means(keys, gen_out), data |-> data]

InitWrite ==
    /\ fout = None
    /\ dirout = None
    /\ disk = <<>>
    /\ dirs = {}
    /\ ret = None
    /\ warned = FALSE
    /\ log = <<>>
    /\ pc = "write"
    /\ \E keys \in KeySeqs \ {<<>>} :
          /\ out = [k \in {keys[i] : i \in 1..Len(keys)} |-> ViewRec(k)]
          /\ run = [keys |-> keys,
                    wrote_means |-> FALSE, means |-> NoWrite,
                    wrote_profiles |-> FALSE, profiles |-> NoWrite]

\* means_to_disk
MeansToDisk ==
    /\ pc = "write"
    /\ ~run.wrote_means
    /\ run' = [run EXCEPT
                  !.wrote_means = TRUE,
                  !.means = OutputWrite(run.keys, out,
                                        unpack_cf_means(run.keys, out))]
    /\ UNCHANGED <<out, fout, dirout, disk, dirs, ret, warned, log, pc>>

\* profiles_to_disk
ProfilesToDisk ==
    /\ pc = "write"
    /\ ~run.wrote_profiles
    /\ run' = [run EXCEPT
                  !.wrote_profiles = TRUE,
                  !.profiles = OutputWrite(run.keys, out,
                                           unpack_cf_profiles(run.keys, out))]
    /\ UNCHANGED <<out, fout, dirout, disk, dirs, ret, warned, log, pc>>

NextWrite == MeansToDisk \/ ProfilesToDisk

SpecWrite == InitWrite /\ [][NextWrite]_vars

\* C26: in every output write, row r of the metadata table and entry r of the
\* means or of the profiles refer to the same site, for every table, also when
\* the site identifiers are strings or sort differently as strings and as
\* numbers.
C26_RowsAligned ==
    /\ (run.wrote_means /\ run.means.err = "none") =>
          \A r \in 1..Len(run.means.gid) :
             /\ run.means.data[r] = out[run.means.gid[r]].cf_mean
             /\ run.means.cf_means[r] = out[run.means.gid[r]].cf_mean
    /\ (run.wrote_profiles /\ run.profiles.err = "none") =>
          \A r \in 1..Len(run.profiles.gid) :
             \A t \in 1..ProfileLen :
                run.profiles.data[t][r] = out[run.profiles.gid[r]].cf_profile[t]

-----------------------------------------------------------------------------
(* The output file name of each year of a config-driven run, under SpecConfig *)

\* C27: in a config-driven run, for every job name, also one that already
\* holds a four-digit year, and every configured year, an output file name has
\* been set before local, peregrine or eagle reads it, and two different years
\* of the same run never get the same output file name.
C27_FoutPerYear ==
    /\ run.error # "KeyError"
    /\ \A a, b \in 1..Len(run.dispatched) :
          run.dispatched[a].year # run.dispatched[b].year
              => run.dispatched[a].fout # run.dispatched[b].fout
    /\ \A a, b \in 1..Len(run.submitted) :
          run.submitted[a].year # run.submitted[b].year
              => run.submitted[a].fout # run.submitted[b].fout

-----------------------------------------------------------------------------
(* The registry of the loggers: SpecLogger *)

\* the largest number of calls of init_logger and init_gen_loggers
MaxCalls == 3

\* the modules of init_gen_loggers, the names of the loggers
GenModules == <<"reV.config", "reV.generation", "reV.utilities">>

LoggerNames == {GenModules[k] : k \in 1..Len(GenModules)}

\* the keys of LOG_LEVEL the calls use
LogLevels == {"INFO", "DEBUG"}

\* os.path.join(logdir, '{}.log'.format(name)), for the log directory l
GenLogFile(name) == <<"l", "/">> \o name \o <<".", "l", "o", "g">>

\* the log files of the calls
LogFiles == {GenLogFile(<<"a">>), GenLogFile(<<"b">>)}

\* the keyword arguments of a call of init_logger, in the order they are
\* given: none, log_level, log_file, or both in either order
KwLevel(l) == [attr |-> "log_level", level |-> l, file |-> <<>>]
KwFile(f) == [attr |-> "log_file", level |-> "", file |-> f]

Kwargs ==
    {<<>>} \cup {<<KwLevel(l)>> : l \in LogLevels}
           \cup {<<KwFile(f)>> : f \in LogFiles}
           \cup {<<KwLevel(l), KwFile(f)>> : l \in LogLevels, f \in LogFiles}
           \cup {<<KwFile(f), KwLevel(l)>> : l \in LogLevels, f \in LogFiles}

\* the attributes of a logger in the registry: a dict with the keys
\* 'log_level' and 'log_file', each there or not
EmptyAttrs == [has_level |-> FALSE, log_level |-> "",
               has_file |-> FALSE, log_file |-> <<>>]

\* LoggingAttributes.__getitem__: self._loggers.get(logger_name, {})
RegistryGet(reg, logger_name) ==
    IF reg[logger_name].present THEN reg[logger_name].attrs ELSE EmptyAttrs

\* the loop of LoggingAttributes.__setitem__ over attributes.items(): the
\* dict log_attrs after it, and the exception that ended it
RECURSIVE SetAttrs(_, _)
SetAttrs(log_attrs, attributes) ==
    IF Len(attributes) = 0 THEN [attrs |-> log_attrs, err |-> "none"]
    ELSE LET a == attributes[1]
         IN  IF a.attr = "log_file"
             THEN IF ~log_attrs.has_file
                  THEN [attrs |-> log_attrs, err |-> "KeyError"]
                  ELSE LET handlers == log_attrs.log_file
                       IN  SetAttrs(
                             IF \A k \in 1..Len(handlers) : handlers[k] # a.file
                             THEN [log_attrs EXCEPT
                                      !.log_file = Append(handlers, a.file)]
                             ELSE log_attrs,
                             Tail(attributes))
             ELSE SetAttrs([log_attrs EXCEPT !.has_level = TRUE,
                                             !.log_level = a.level],
                           Tail(attributes))

\* LoggingAttributes.__setitem__(logger_name, attributes): the registry after
\* it and the exception it raised. The dict of a logger that is in the
\* registry is changed in place, also when a later attribute raises.
RegistrySet(reg, logger_name, attributes) ==
    LET r == SetAttrs(RegistryGet(reg, logger_name), attributes)
    IN  [reg |-> IF r.err = "none"
                 THEN [reg EXCEPT ![logger_name] =
                                     [present |-> TRUE, attrs |-> r.attrs]]
                 ELSE IF reg[logger_name].present
                 THEN [reg EXCEPT ![logger_name].attrs = r.attrs]
                 ELSE reg,
         err |-> r.err]

\* the value of a keyword argument, or its default
KwLevelOf(kwargs) ==
    IF \E k \in 1..Len(kwargs) : kwargs[k].attr = "log_level"
    THEN kwargs[CHOOSE k \in 1..Len(kwargs) : kwargs[k].attr = "log_level"].level
    ELSE "INFO"

\* str(handler) of get_handler(log_file): a FileHandler of the file, or a
\* StreamHandler when no log file is given
KwHandlerOf(kwargs) ==
    IF \E k \in 1..Len(kwargs) : kwargs[k].attr = "log_file"
    THEN kwargs[CHOOSE k \in 1..Len(kwargs) : kwargs[k].attr = "log_file"].file
    ELSE <<"<", "s", "t", "d", "e", "r", "r", ">">>

\* setup_logger(logger_name, **kwargs): the level and the handlers of the
\* logger after it
setup_logger(lg, kwargs) ==
    [level |-> KwLevelOf(kwargs),
     handlers |-> IF \E k \in 1..Len(lg.handlers) :
                        lg.handlers[k] = KwHandlerOf(kwargs)
                  THEN lg.handlers
                  ELSE Append(lg.handlers, KwHandlerOf(kwargs))]

\* init_logger(logger_name, **kwargs), in the state st of the registry and of
\* the loggers
init_logger(st, logger_name, kwargs) ==
    LET r == RegistrySet(st.reg, logger_name, kwargs)
    IN  [reg |-> r.reg,
         loggers |-> [st.loggers EXCEPT
                         ![logger_name] = setup_logger(@, kwargs)],
         err |-> r.err]

\* the loop of init_gen_loggers over the modules from the k-th on
RECURSIVE GenLoggersFrom(_, _, _, _)
GenLoggersFrom(st, k, log_level, log_file) ==
    IF k > Len(GenModules) THEN st
    ELSE LET logger == RegistryGet(st.reg, GenModules[k])
         IN  IF logger.has_file
             THEN GenLoggersFrom(st, k + 1, log_level, log_file)
             ELSE LET r == init_logger(st, GenModules[k],
                                       <<KwLevel(log_level), KwFile(log_file)>>)
                  IN  IF r.err # "none" THEN r
                      ELSE GenLoggersFrom(r, k + 1, log_level, log_file)

\* init_gen_loggers(verbose, name)
init_gen_loggers(st, verbose, name) ==
    GenLoggersFrom([st EXCEPT !.err = "none"], 1,
                   IF verbose THEN "DEBUG" ELSE "INFO", GenLogFile(name))

NoCall == [op |-> "none", name |-> "", kwargs |-> <<>>, new |-> FALSE]

InitLogger ==
    /\ out = EmptyDict
    /\ fout = None
    /\ dirout = <<"l">>
    /\ disk = <<>>
    /\ dirs = {}
    /\ ret = None
    /\ warned = FALSE
    /\ log = <<>>
    /\ pc = "idle"
    /\ run = [reg |-> [n \in LoggerNames |->
                          [present |-> FALSE, attrs |-> EmptyAttrs]],
              loggers |-> [n \in LoggerNames |->
                              [level |-> "NOTSET", handlers |-> <<>>]],
              err |-> "none", calls |-> 0, last |-> NoCall]

\* a call init_logger(logger_name, **kwargs)
InitLoggerCall ==
    /\ run.calls < MaxCalls
    /\ \E logger_name \in LoggerNames, kwargs \in Kwargs :
       \E r \in {init_logger(run, logger_name, kwargs)} :
          run' = [reg |-> r.reg, loggers |-> r.loggers, err |-> r.err,
                  calls |-> run.calls + 1,
                  last |-> [op |-> "init_logger", name |-> logger_name,
                            kwargs |-> kwargs,
                            new |-> ~run.reg[logger_name].present]]
    /\ UNCHANGED <<out, fout, dirout, disk, dirs, ret, warned, log, pc>>

\* a call init_gen_loggers(verbose, name)
InitGenLoggersCall ==
    /\ run.calls < MaxCalls
    /\ \E verbose \in BOOLEAN, name \in {<<"a">>, <<"b">>} :
       \E r \in {init_gen_loggers(run, verbose, name)} :
          run' = [reg |-> r.reg, loggers |-> r.loggers, err |-> r.err,
                  calls |-> run.calls + 1,
                  last |-> [op |-> "init_gen_loggers", name |-> "",
                            kwargs |-> <<>>, new |-> FALSE]]
    /\ UNCHANGED <<out, fout, dirout, disk, dirs, ret, warned, log, pc>>

NextLogger == InitLoggerCall \/ InitGenLoggersCall

SpecLogger == InitLogger /\ [][NextLogger]_vars

\* the last call was init_logger(name, log_level=L, log_file=F) for a name
\* that was not in the registry
NewLoggerWithFile ==
    /\ run.last.op = "init_logger"
    /\ run.last.new
    /\ Len(run.last.kwargs) = 2
    /\ run.last.kwargs[1].attr = "log_level"

\* C28: for a logger name not yet in the registry,
\* init_logger(name, log_level=L, log_file=F) returns normally and afterwards
\* REV_LOGGERS[name] holds log_level L and a log_file list that contains F;
\* after any further calls of init_logger each log file of a logger is in its
\* list exactly once.
C28_RegistryHoldsCall ==
    /\ NewLoggerWithFile =>
          LET attrs == RegistryGet(run.reg, run.last.name)
          IN  /\ run.err = "none"
              /\ attrs.has_level
              /\ attrs.log_level = run.last.kwargs[1].level
              /\ attrs.has_file
              /\ \E k \in 1..Len(attrs.log_file) :
                    attrs.log_file[k] = run.last.kwargs[2].file
    /\ \A n \in LoggerNames :
          \A j, k \in 1..Len(run.reg[n].attrs.log_file) :
             j # k => run.reg[n].attrs.log_file[j] # run.reg[n].attrs.log_file[k]

=============================================================================
